---- MODULE Spec2Model ----
(***************************************************************************)
(* Model of dash_proto.py: the four query repositories, the connection     *)
(* guardian (init_connection / check_connection) and the search and        *)
(* statistics orchestration that the Streamlit script runs once per        *)
(* request cycle (one rerun of the script per user interaction).           *)
(*                                                                         *)
(* A request cycle is the sequence                                         *)
(*   check_connection (line 486) -> page selection -> repository calls     *)
(* and pc names the line of the script that runs next.  Every repository   *)
(* method is one action; the data source (pyodbc + SQL Server) is the      *)
(* environment: each call draws the outcome of connection.cursor(), the    *)
(* outcome of cursor.execute()/fetchall() and the number of rows that      *)
(* satisfy the query's predicate at that moment.  The tables are written   *)
(* by other systems and every query reads WITH (NOLOCK), so two queries    *)
(* of one cycle are separate observations of the tables.                   *)
(***************************************************************************)
EXTENDS Integers, Sequences, FiniteSets, TLC

(***************************************************************************)
(* Bounds of the model.                                                    *)
(***************************************************************************)
MaxTextLen == 1
MaxAreaLen == 3
MaxConnections == 2
MaxExtra == 1

(***************************************************************************)
(* Text.  A Python str is a sequence of characters; the alphabet has one   *)
(* ordinary character, the space and the line break.                       *)
(***************************************************************************)
LineChars == {" ", "A"}
Chars == LineChars \cup {"\n"}

StringsOver(alphabet, n) == UNION {[1..k -> alphabet] : k \in 0..n}

\* st.text_input: a single-line value, never stripped by the widget
TextInputs == StringsOver(LineChars, MaxTextLen)
\* st.text_area: may hold line breaks
TextAreas == StringsOver(Chars, MaxAreaLen)

\* str.isspace() on one character
IsSpace(c) == c \in {" ", "\n"}

\* "if not value": a str is falsy exactly when it is empty
Falsy(s) == Len(s) = 0

RECURSIVE LStrip(_)
LStrip(s) ==
    IF Len(s) = 0 THEN s
    ELSE IF IsSpace(Head(s)) THEN LStrip(Tail(s)) ELSE s

RECURSIVE RStrip(_)
RStrip(s) ==
    IF Len(s) = 0 THEN s
    ELSE IF IsSpace(s[Len(s)]) THEN RStrip(SubSeq(s, 1, Len(s) - 1)) ELSE s

\* str.strip()
Strip(s) == RStrip(LStrip(s))

RECURSIVE Split(_)
\* str.split('\n'): the pieces between line breaks, empty pieces kept
Split(s) ==
    IF \A i \in 1..Len(s) : s[i] # "\n" THEN <<s>>
    ELSE LET i == CHOOSE j \in 1..Len(s) :
                     s[j] = "\n" /\ \A k \in 1..(j - 1) : s[k] # "\n"
         IN  <<SubSeq(s, 1, i - 1)>> \o Split(SubSeq(s, i + 1, Len(s)))

RECURSIVE StripNonBlank(_)
StripNonBlank(lines) ==
    IF Len(lines) = 0 THEN <<>>
    ELSE IF Falsy(Strip(Head(lines))) THEN StripNonBlank(Tail(lines))
         ELSE <<Strip(Head(lines))>> \o StripNonBlank(Tail(lines))

\* nr_list = [line.strip() for line in input_value.split('\n') if line.strip()]
NrList(input) == StripNonBlank(Split(input))

(***************************************************************************)
(* Exceptions.  pyodbc.OperationalError and pyodbc.ProgrammingError are    *)
(* the two classes check_connection names; "InterfaceError" stands for the *)
(* other classes under pyodbc.Error (pyodbc.Error itself, InterfaceError,  *)
(* DataError, ...); "TypeError" for an exception outside pyodbc.           *)
(***************************************************************************)
PyodbcErrors == {"OperationalError", "ProgrammingError", "InterfaceError"}
ExcKinds == PyodbcErrors \cup {"TypeError"}
Outcomes == {"ok"} \cup ExcKinds

\* except pyodbc.Error
IsPyodbcError(e) == e \in PyodbcErrors

\* what the data source did during a call: nothing wrong, no cursor handed
\* out, a pyodbc error while the query ran, or another exception
FaultClass(cur, ex) ==
    IF cur # "ok" THEN "cursor"
    ELSE IF ex = "ok" THEN "none"
    ELSE IF ex \in PyodbcErrors THEN "pyodbc"
    ELSE "other"

(***************************************************************************)
(* Session state and repositories.                                         *)
(***************************************************************************)
RepoNames == {"tixlog", "mclog", "mix100", "mclog_cct"}

NoConnection == 0
Handles == 1..MaxConnections

Unbound == [r \in RepoNames |-> NoConnection]
ReposAbsent == [tag |-> "absent", bind |-> Unbound]
ReposNone == [tag |-> "None", bind |-> Unbound]
ReposDict(bind) == [tag |-> "dict", bind |-> bind]

\* "if repos": None is falsy, the dict of four repositories is truthy
Truthy(r) == r.tag = "dict"

\* pyodbc.connect returns a new connection object, distinct from the stored one
NewHandle(stored) == (stored % MaxConnections) + 1

VARIABLES
    db_connection,   \* st.session_state.db_connection
    session_repos,   \* st.session_state.repos
    openCursors,     \* cursors opened and not yet closed
    pc,              \* next line of the script
    repos,           \* module-level repos = check_connection()
    search_type,     \* selected mode / pressed button of this cycle
    input_value,     \* text typed by the user
    calls,           \* repository calls of this cycle, in order
    sv,              \* result variables of the script (row counts)
    messages,        \* notices rendered in this cycle
    initCalls,       \* calls of init_connection in this cycle
    probe,           \* outcome of the liveness probe of this cycle
    raised,          \* exception that ended this run of the script
    arg,             \* input of the function evaluated on its own
    ret              \* what that function returned or rendered

\* the state of one run of the script
scriptVars == <<db_connection, session_repos, openCursors, pc, repos,
                search_type, input_value, calls, sv, messages, initCalls,
                probe, raised>>

vars == <<scriptVars, arg, ret>>


(***************************************************************************)
(* The data source.                                                        *)
(***************************************************************************)
TopTixlog == 1000
TopMclog == 1000
TopLatestErrors == 1000
TopMix100 == 500
TopMclogCct == 5000
TopRecentLogs == 100000

\* numbers of rows (or of groups) that may satisfy a query when it runs
\* (none, a few, or more than the largest TOP limit of any query)
TableSizes == {0, MaxExtra, TopMclogCct + MaxExtra}

\* what the data source does during one call: connection.cursor() fails, or
\* cursor.execute()/fetchall() fails, or the query runs over n matching rows
DataSource ==
    {[cur |-> "ok", ex |-> "ok", n |-> n] : n \in TableSizes}
    \cup {[cur |-> e, ex |-> "ok", n |-> 0] : e \in ExcKinds}
    \cup {[cur |-> "ok", ex |-> e, n |-> 0] : e \in ExcKinds}

\* the same for the probe "SELECT 1", which reads no table
ProbeOutcomes == {d \in DataSource : d.n = 0}

Min(a, b) == IF a < b THEN a ELSE b
Max(a, b) == IF a < b THEN b ELSE a

\* variant: the TOP clause is missing from the query
SelectTop_Missing(cap, n) == n

\* SELECT TOP (cap) ... : at most cap of the n rows that satisfy the predicate
SelectTop(cap, n) == Min(n, cap)

(***************************************************************************)
(* A repository call is recorded as                                        *)
(*   op, args : the method and the values it was given                     *)
(*   opened   : connection.cursor() returned a cursor                      *)
(*   executed : cursor.execute() was called                                *)
(*   closed   : cursor.close() ran                                         *)
(*   rows     : rows of the returned list (0 when the call raised)         *)
(*   exc      : exception that left the method ("none" if it returned)     *)
(*   notice   : the method rendered st.error                               *)
(*   fault    : what the data source did (see FaultClass)                  *)
(***************************************************************************)
ShortCircuit(op, args) ==
    [op |-> op, args |-> args, opened |-> FALSE, executed |-> FALSE,
     closed |-> FALSE, rows |-> 0, exc |-> "none", notice |-> FALSE,
     fault |-> "none"]

\* variant: cursor.close() only after a successful fetch, not in a finally
CursorBlock_NoFinally(op, args, cur, ex, rows, catches) ==
    IF cur # "ok" THEN
        [op |-> op, args |-> args, opened |-> FALSE, executed |-> FALSE,
         closed |-> FALSE, rows |-> 0, exc |-> cur, notice |-> FALSE,
         fault |-> FaultClass(cur, ex)]
    ELSE IF ex = "ok" THEN
        [op |-> op, args |-> args, opened |-> TRUE, executed |-> TRUE,
         closed |-> TRUE, rows |-> rows, exc |-> "none",
         notice |-> FALSE, fault |-> "none"]
    ELSE IF catches /\ IsPyodbcError(ex) THEN
        [op |-> op, args |-> args, opened |-> TRUE, executed |-> TRUE,
         closed |-> FALSE, rows |-> 0, exc |-> "none", notice |-> TRUE,
         fault |-> FaultClass(cur, ex)]
    ELSE
        [op |-> op, args |-> args, opened |-> TRUE, executed |-> TRUE,
         closed |-> FALSE, rows |-> 0, exc |-> ex, notice |-> FALSE,
         fault |-> FaultClass(cur, ex)]

\* try: execute; format  [except pyodbc.Error: st.error; return []]
\* finally: cursor.close()      -- with cursor = connection.cursor() before try
CursorBlock(op, args, cur, ex, rows, catches) ==
    IF cur # "ok" THEN
        [op |-> op, args |-> args, opened |-> FALSE, executed |-> FALSE,
         closed |-> FALSE, rows |-> 0, exc |-> cur, notice |-> FALSE,
         fault |-> FaultClass(cur, ex)]
    ELSE IF ex = "ok" THEN
        [op |-> op, args |-> args, opened |-> TRUE, executed |-> TRUE,
         closed |-> TRUE, rows |-> rows, exc |-> "none",
         notice |-> FALSE, fault |-> "none"]
    ELSE IF catches /\ IsPyodbcError(ex) THEN
        [op |-> op, args |-> args, opened |-> TRUE, executed |-> TRUE,
         closed |-> TRUE, rows |-> 0, exc |-> "none", notice |-> TRUE,
         fault |-> FaultClass(cur, ex)]
    ELSE
        [op |-> op, args |-> args, opened |-> TRUE, executed |-> TRUE,
         closed |-> TRUE, rows |-> 0, exc |-> ex, notice |-> FALSE,
         fault |-> FaultClass(cur, ex)]

\* TixlogRepository._execute_query: try/finally without an except clause
ExecuteQuery(op, args, cur, ex, n) ==
    CursorBlock(op, args, cur, ex, SelectTop(TopTixlog, n), FALSE)

Tixlog_find_by_nr_controle(nr_controle, cur, ex, n) ==
    IF Falsy(nr_controle)
    THEN ShortCircuit("tixlog.find_by_nr_controle", <<nr_controle>>)
    ELSE ExecuteQuery("tixlog.find_by_nr_controle", <<nr_controle>>, cur, ex, n)

Tixlog_find_by_idreqjdpi(idreqjdpi, cur, ex, n) ==
    IF Falsy(idreqjdpi)
    THEN ShortCircuit("tixlog.find_by_idreqjdpi", <<idreqjdpi>>)
    ELSE ExecuteQuery("tixlog.find_by_idreqjdpi", <<idreqjdpi>>, cur, ex, n)

\* one placeholder per element; "if not nr_controles" is true of the empty list
Tixlog_find_by_nr_controle_in(nr_controles, cur, ex, n) ==
    IF Len(nr_controles) = 0
    THEN ShortCircuit("tixlog.find_by_nr_controle_in", nr_controles)
    ELSE ExecuteQuery("tixlog.find_by_nr_controle_in", nr_controles, cur, ex, n)

Tixlog_find_by_json_content(text_to_find, cur, ex, n) ==
    IF Falsy(text_to_find)
    THEN ShortCircuit("tixlog.find_by_json_content", <<text_to_find>>)
    ELSE CursorBlock("tixlog.find_by_json_content", <<text_to_find>>, cur, ex,
                     SelectTop(TopTixlog, n), TRUE)

Tixlog_find_by_origem(origem, cur, ex, n) ==
    IF Falsy(origem)
    THEN ShortCircuit("tixlog.find_by_origem", <<origem>>)
    ELSE ExecuteQuery("tixlog.find_by_origem", <<origem>>, cur, ex, n)

\* one row per minute bucket that holds a first occurrence; no TOP.  The
\* window is the last day, so there are at most 24*60+1 buckets.
Tixlog_get_new_entries_per_minute(cur, ex, n) ==
    CursorBlock("tixlog.get_new_entries_per_minute", <<>>, cur, ex,
                Min(n, 24 * 60 + 1), TRUE)

\* GROUP BY NR_CONTROLE over WHERE NR_CONTROLE = ?: one row iff a row matches
Tixlog_get_transaction_summary(nr_controle, cur, ex, n) ==
    IF Falsy(nr_controle)
    THEN ShortCircuit("tixlog.get_transaction_summary", <<nr_controle>>)
    ELSE CursorBlock("tixlog.get_transaction_summary", <<nr_controle>>, cur, ex,
                     Min(n, 1), TRUE)

\* one row per NR_CONTROLE of the source rows; n is the number of distinct
\* NR_CONTROLE in the day window; '100k' reads at most TopRecentLogs rows
Tixlog_get_performance_summary_data(mode, cur, ex, n) ==
    IF mode = "24h" THEN
        CursorBlock("tixlog.get_performance_summary_data", <<mode>>, cur, ex,
                    n, TRUE)
    ELSE IF mode = "100k" THEN
        CursorBlock("tixlog.get_performance_summary_data", <<mode>>, cur, ex,
                    Min(n, TopRecentLogs), TRUE)
    ELSE ShortCircuit("tixlog.get_performance_summary_data", <<mode>>)

Mclog_find_by_outras_info(search_term, cur, ex, n) ==
    IF Falsy(search_term)
    THEN ShortCircuit("mclog.find_by_outras_info", <<search_term>>)
    ELSE CursorBlock("mclog.find_by_outras_info", <<search_term>>, cur, ex,
                     SelectTop(TopMclog, n), TRUE)

\* one row per (minute, FUNCAO) group of the window; no TOP
Mclog_get_operations_per_minute(hours_ago, cur, ex, n) ==
    CursorBlock("mclog.get_operations_per_minute", <<hours_ago>>, cur, ex,
                n, TRUE)

Mclog_get_latest_errors(cur, ex, n) ==
    CursorBlock("mclog.get_latest_errors", <<>>, cur, ex,
                SelectTop(TopLatestErrors, n), TRUE)

Mix100_find_by_nr_controle(nr_controle, cur, ex, n) ==
    IF Falsy(nr_controle)
    THEN ShortCircuit("mix100.find_by_nr_controle", <<nr_controle>>)
    ELSE CursorBlock("mix100.find_by_nr_controle", <<nr_controle>>, cur, ex,
                     SelectTop(TopMix100, n), TRUE)

Mix100_find_by_endtoendiddevolucao(endtoendid, cur, ex, n) ==
    IF Falsy(endtoendid)
    THEN ShortCircuit("mix100.find_by_endtoendiddevolucao", <<endtoendid>>)
    ELSE CursorBlock("mix100.find_by_endtoendiddevolucao", <<endtoendid>>,
                     cur, ex, SelectTop(TopMix100, n), TRUE)

MclogCct_find_by_kyt_id(kyt_id, cur, ex, n) ==
    IF Falsy(kyt_id)
    THEN ShortCircuit("mclog_cct.find_by_kyt_id", <<kyt_id>>)
    ELSE CursorBlock("mclog_cct.find_by_kyt_id", <<kyt_id>>, cur, ex,
                     SelectTop(TopMclogCct, n), TRUE)

(***************************************************************************)
(* Connection guardian.                                                    *)
(***************************************************************************)
\* pyodbc.connect(st.secrets[...]): success, a driver error, or a missing
\* or invalid secrets entry (KeyError); all are subclasses of Exception
ConnectOutcomes == {"ok", "OperationalError", "KeyError"}

\* variant: one repository is built on the previously stored connection
init_connection_WrongBind(stored, connect) ==
    IF connect = "ok" THEN
        LET connection == NewHandle(stored)
            built == ReposDict([r \in RepoNames |->
                                  IF r = "mix100" THEN stored ELSE connection])
        IN  [db |-> connection, srepos |-> built, ret |-> built, msgs |-> {}]
    ELSE
        [db |-> NoConnection, srepos |-> ReposNone, ret |-> ReposNone,
         msgs |-> {"connect_error"}]

\* variant: a failed reconnection hands back repositories on the old handle
init_connection_KeepsRepos(stored, connect) ==
    IF connect = "ok" THEN
        LET connection == NewHandle(stored)
            built == ReposDict([r \in RepoNames |-> connection])
        IN  [db |-> connection, srepos |-> built, ret |-> built, msgs |-> {}]
    ELSE
        [db |-> NoConnection, srepos |-> ReposNone,
         ret |-> IF stored = NoConnection THEN ReposNone
                 ELSE ReposDict([r \in RepoNames |-> stored]),
         msgs |-> {"connect_error"}]

\* variant: the failure branch clears the repositories only
init_connection_KeepsConnection(stored, connect) ==
    IF connect = "ok" THEN
        LET connection == NewHandle(stored)
            built == ReposDict([r \in RepoNames |-> connection])
        IN  [db |-> connection, srepos |-> built, ret |-> built, msgs |-> {}]
    ELSE
        [db |-> stored, srepos |-> ReposNone, ret |-> ReposNone,
         msgs |-> {"connect_error"}]

init_connection(stored, connect) ==
    IF connect = "ok" THEN
        LET connection == NewHandle(stored)
            built == ReposDict([r \in RepoNames |-> connection])
        IN  [db |-> connection, srepos |-> built, ret |-> built, msgs |-> {}]
    ELSE
        [db |-> NoConnection, srepos |-> ReposNone, ret |-> ReposNone,
         msgs |-> {"connect_error"}]

\* except (pyodbc.OperationalError, pyodbc.ProgrammingError)
ProbeCaught(e) == e \in {"OperationalError", "ProgrammingError"}

\* variant: only a session without the "repos" key counts as Unconnected
Unconnected_AbsentOnly(srepos) == srepos.tag = "absent"

\* if "repos" not in st.session_state or st.session_state.repos is None
Unconnected(srepos) == srepos.tag \in {"absent", "None"}

\* finally: if cursor: cursor.close()   (cursor stays None when cursor() raised)
ProbeCursorClosed(cur, ex) == cur = "ok"

\* variant: the guardian reconnects even when the probe succeeded
check_connection_AlwaysInit(db, srepos, cur, ex, connect) ==
    IF Unconnected(srepos) THEN
        LET i == init_connection(db, connect)
        IN  [db |-> i.db, srepos |-> i.srepos, ret |-> i.ret, msgs |-> i.msgs,
             inits |-> 1, probe |-> "none", raised |-> "none",
             opened |-> FALSE, closed |-> FALSE]
    ELSE
        LET failure == IF cur # "ok" THEN cur ELSE ex
        IN  IF failure = "ok" THEN
                LET i == init_connection(db, connect)
                IN  [db |-> i.db, srepos |-> i.srepos, ret |-> i.ret,
                     msgs |-> i.msgs,
                     inits |-> 1, probe |-> "ok", raised |-> "none",
                     opened |-> TRUE, closed |-> ProbeCursorClosed(cur, ex)]
            ELSE IF ProbeCaught(failure) THEN
                LET i == init_connection(db, connect)
                IN  [db |-> i.db, srepos |-> i.srepos, ret |-> i.ret,
                     msgs |-> {"connection_lost"} \cup i.msgs,
                     inits |-> 1, probe |-> failure, raised |-> "none",
                     opened |-> (cur = "ok"),
                     closed |-> ProbeCursorClosed(cur, ex)]
            ELSE
                [db |-> db, srepos |-> srepos, ret |-> ReposNone, msgs |-> {},
                 inits |-> 0, probe |-> failure, raised |-> failure,
                 opened |-> (cur = "ok"),
                 closed |-> ProbeCursorClosed(cur, ex)]

check_connection(db, srepos, cur, ex, connect) ==
    IF Unconnected(srepos) THEN
        LET i == init_connection(db, connect)
        IN  [db |-> i.db, srepos |-> i.srepos, ret |-> i.ret, msgs |-> i.msgs,
             inits |-> 1, probe |-> "none", raised |-> "none",
             opened |-> FALSE, closed |-> FALSE]
    ELSE
        LET failure == IF cur # "ok" THEN cur ELSE ex
        IN  IF failure = "ok" THEN
                [db |-> db, srepos |-> srepos, ret |-> srepos, msgs |-> {},
                 inits |-> 0, probe |-> "ok", raised |-> "none",
                 opened |-> TRUE, closed |-> ProbeCursorClosed(cur, ex)]
            ELSE IF ProbeCaught(failure) THEN
                LET i == init_connection(db, connect)
                IN  [db |-> i.db, srepos |-> i.srepos, ret |-> i.ret,
                     msgs |-> {"connection_lost"} \cup i.msgs,
                     inits |-> 1, probe |-> failure, raised |-> "none",
                     opened |-> (cur = "ok"),
                     closed |-> ProbeCursorClosed(cur, ex)]
            ELSE
                [db |-> db, srepos |-> srepos, ret |-> ReposNone, msgs |-> {},
                 inits |-> 0, probe |-> failure, raised |-> failure,
                 opened |-> (cur = "ok"),
                 closed |-> ProbeCursorClosed(cur, ex)]

(***************************************************************************)
(* The script.                                                             *)
(***************************************************************************)
M360 == "MIX100: Por NR_CONTROLE (Busca 360)"
ME2E == "MIX100: Por EndToEndId Devolucao"
MKYT == "MCLOG CCT: Por ID da Transacao KYT"
MTixNr == "TIXLOG: Por NR_CONTROLE"
MTixId == "TIXLOG: Por IDREQJDPI"
MTixList == "TIXLOG: Por Lista de NR_CONTROLE (IN)"
MTixJson == "TIXLOG: Por Conteudo no JSON (LIKE)"
MTixOrigem == "TIXLOG: Por Origem"
MMclog == "MCLOG CAD: Busca Geral em OUTRAS_INFO"

SearchTypes == {M360, ME2E, MKYT, MTixNr, MTixId, MTixList, MTixJson,
                MTixOrigem, MMclog}
\* search_type.startswith("TIXLOG")
TixlogTypes == {MTixNr, MTixId, MTixList, MTixJson, MTixOrigem}

BEntries == "Gerar Grafico de Entradas por Minuto"
BOperations == "Gerar Grafico de Operacoes"
BPerformance == "Analisar Performance"
StatButtons == {BEntries, BOperations, BPerformance}

\* time_options and perf_mode_options of the statistics page
HourOptions == {1, 6, 24}
PerfModes == {"24h", "100k"}

SvNames == {"summary_data", "mix100_results", "tixlog_results",
            "mclog_results", "kyt_results", "primary_results",
            "temp_complementary", "complementary_results", "stats_data",
            "ops_data", "error_data", "perf_data"}
SvEmpty == [v \in SvNames |-> 0]

\* variant: the 360 branch forgets the MCLOG CAD result
NoResults360_NoMclog(s) ==
    s["mix100_results"] = 0 /\ s["tixlog_results"] = 0

\* the closing "if not ...: results_placeholder_1.info(...)" of each branch
NoResults360(s) ==
    s["mix100_results"] = 0 /\ s["tixlog_results"] = 0 /\ s["mclog_results"] = 0

NoResultsTixlog(s) ==
    s["primary_results"] = 0 /\ s["complementary_results"] = 0

NoResults(mode, s) ==
    IF mode = M360 THEN NoResults360(s)
    ELSE IF mode = ME2E THEN s["mix100_results"] = 0
    ELSE IF mode = MKYT THEN s["kyt_results"] = 0
    ELSE IF mode \in TixlogTypes THEN NoResultsTixlog(s)
    ELSE s["mclog_results"] = 0

\* the session before the first run of the script
ScriptAtStart ==
    /\ db_connection = NoConnection
    /\ session_repos = ReposAbsent
    /\ openCursors = 0
    /\ pc = "L486"
    /\ repos = ReposNone
    /\ search_type = "none"
    /\ input_value = <<>>
    /\ calls = <<>>
    /\ sv = SvEmpty
    /\ messages = {}
    /\ initCalls = 0
    /\ probe = "none"
    /\ raised = "none"

Init ==
    /\ ScriptAtStart
    /\ arg = <<>>
    /\ ret = <<>>

\* the inputs check_connection reads: the probe only when the session is
\* connected, pyodbc.connect only when init_connection is reached
ProbeInputs(srepos) ==
    IF Unconnected(srepos) THEN {d \in ProbeOutcomes : d.cur = "ok" /\ d.ex = "ok"}
    ELSE ProbeOutcomes

ConnectInputs(srepos, d) ==
    IF Unconnected(srepos) \/ ProbeCaught(d.cur)
       \/ (d.cur = "ok" /\ ProbeCaught(d.ex))
    THEN ConnectOutcomes ELSE {"ok"}

\* line 486: a new run of the script starts with repos = check_connection()
CheckConnection ==
    /\ pc \in {"L486", "end"}
    /\ \E d \in ProbeInputs(session_repos) :
       \E connect \in ConnectInputs(session_repos, d) :
         LET c == check_connection(db_connection, session_repos, d.cur, d.ex,
                                   connect)
         IN  /\ db_connection' = c.db
             /\ session_repos' = c.srepos
             /\ repos' = c.ret
             /\ messages' = c.msgs
             /\ initCalls' = c.inits
             /\ probe' = c.probe
             /\ raised' = c.raised
             /\ openCursors' = openCursors + (IF c.opened THEN 1 ELSE 0)
                                           - (IF c.closed THEN 1 ELSE 0)
             /\ pc' = IF c.raised = "none" THEN "page" ELSE "end"
    /\ search_type' = "none"
    /\ input_value' = <<>>
    /\ calls' = <<>>
    /\ sv' = SvEmpty
    /\ UNCHANGED <<arg, ret>>

\* if search_clicked and repos   (line 644)
SearchGuard(search_clicked, r) == search_clicked /\ Truthy(r)

\* the first repository call of each branch of the search page
FirstLine(st) ==
    IF st \in {M360, MTixNr} THEN "L650"
    ELSE IF st = ME2E THEN "L671"
    ELSE IF st = MKYT THEN "L677"
    ELSE IF st \in TixlogTypes THEN "L686"
    ELSE "L705"

\* lines 496-545 and 644: the search page reads its widgets
SelectSearch ==
    /\ pc = "page"
    /\ \E st \in SearchTypes, search_clicked \in BOOLEAN :
         \E iv \in (IF st = MTixList THEN TextAreas ELSE TextInputs) :
            /\ search_type' = st
            /\ input_value' = iv
            /\ pc' = IF SearchGuard(search_clicked, repos)
                     THEN FirstLine(st) ELSE "end"
    /\ UNCHANGED <<db_connection, session_repos, openCursors, repos, calls,
                   sv, messages, initCalls, probe, raised, arg, ret>>

\* if repos: ... else: st.error("Conexao ... nao estabelecida.")
StatsGuard(r) == Truthy(r)

ButtonLine(b) ==
    IF b = BEntries THEN "L719" ELSE IF b = BOperations THEN "L753" ELSE "L798"

\* lines 710-798: the statistics page; at most one button is pressed per run
SelectStats ==
    /\ pc = "page"
    /\ \E b \in StatButtons \cup {"none"} :
            /\ search_type' = b
            /\ IF b = "none" THEN pc' = "end" /\ messages' = messages
               ELSE IF StatsGuard(repos)
                    THEN pc' = ButtonLine(b) /\ messages' = messages
                    ELSE pc' = "end"
                         /\ messages' = messages \cup {"not_connected"}
    /\ UNCHANGED <<db_connection, session_repos, openCursors, repos,
                   input_value, calls, sv, initCalls, probe, raised, arg,
                   ret>>

\* a repository call at one line of the script: the result goes to the
\* script variable slot; an exception ends the run; last marks the call
\* after which the branch evaluates its "Nenhum resultado encontrado" notice
Step(e, slot, next, last) ==
    LET s2 == [sv EXCEPT ![slot] = e.rows]
    IN  /\ calls' = Append(calls, e)
        /\ openCursors' = openCursors + (IF e.opened THEN 1 ELSE 0)
                                      - (IF e.closed THEN 1 ELSE 0)
        /\ IF e.exc # "none"
           THEN /\ raised' = e.exc
                /\ pc' = "end"
                /\ sv' = sv
                /\ messages' = messages
           ELSE /\ raised' = raised
                /\ pc' = next
                /\ sv' = s2
                /\ messages' = messages
                     \cup (IF e.notice THEN {"query_error"} ELSE {})
                     \cup (IF last /\ NoResults(search_type, s2)
                           THEN {"no_results"} ELSE {})
        /\ UNCHANGED <<db_connection, session_repos, repos, search_type,
                       input_value, initCalls, probe, arg, ret>>

\* line 650
L650_get_transaction_summary ==
    /\ pc = "L650"
    /\ \E d \in DataSource :
         Step(Tixlog_get_transaction_summary(input_value, d.cur, d.ex, d.n),
              "summary_data",
              IF search_type = M360 THEN "L662" ELSE "L686", FALSE)

\* line 662
L662_mix100_find_by_nr_controle ==
    /\ pc = "L662"
    /\ \E d \in DataSource :
         Step(Mix100_find_by_nr_controle(input_value, d.cur, d.ex, d.n),
              "mix100_results", "L664", FALSE)

\* line 664
L664_tixlog_find_by_nr_controle ==
    /\ pc = "L664"
    /\ \E d \in DataSource :
         Step(Tixlog_find_by_nr_controle(input_value, d.cur, d.ex, d.n),
              "tixlog_results", "L666", FALSE)

\* lines 666-668
L666_mclog_find_by_outras_info ==
    /\ pc = "L666"
    /\ \E d \in DataSource :
         Step(Mclog_find_by_outras_info(input_value, d.cur, d.ex, d.n),
              "mclog_results", "end", TRUE)

\* lines 671-673
L671_find_by_endtoendiddevolucao ==
    /\ pc = "L671"
    /\ \E d \in DataSource :
         Step(Mix100_find_by_endtoendiddevolucao(input_value, d.cur, d.ex, d.n),
              "mix100_results", "end", TRUE)

\* lines 677-681
L677_find_by_kyt_id ==
    /\ pc = "L677"
    /\ \E d \in DataSource :
         Step(MclogCct_find_by_kyt_id(input_value, d.cur, d.ex, d.n),
              "kyt_results", "end", TRUE)

\* line 686
L686_find_by_nr_controle ==
    /\ pc = "L686" /\ search_type = MTixNr
    /\ \E d \in DataSource :
         Step(Tixlog_find_by_nr_controle(input_value, d.cur, d.ex, d.n),
              "primary_results", "L700", FALSE)

\* line 687
L687_find_by_idreqjdpi ==
    /\ pc = "L686" /\ search_type = MTixId
    /\ \E d \in DataSource :
         Step(Tixlog_find_by_idreqjdpi(input_value, d.cur, d.ex, d.n),
              "primary_results", "L700", FALSE)

\* lines 688-690, the list is not empty
L690_find_by_nr_controle_in ==
    /\ pc = "L686" /\ search_type = MTixList
    /\ Len(NrList(input_value)) > 0
    /\ \E d \in DataSource :
         Step(Tixlog_find_by_nr_controle_in(NrList(input_value), d.cur, d.ex, d.n),
              "primary_results", "L698", FALSE)

\* lines 688-702 when nr_list is empty: both lookups are skipped
L690_empty_list ==
    /\ pc = "L686" /\ search_type = MTixList
    /\ Len(NrList(input_value)) = 0
    /\ pc' = "end"
    /\ messages' = messages
         \cup (IF NoResults(search_type, sv) THEN {"no_results"} ELSE {})
    /\ UNCHANGED <<db_connection, session_repos, openCursors, repos,
                   search_type, input_value, calls, sv, initCalls, probe,
                   raised, arg, ret>>

\* line 691
L691_find_by_json_content ==
    /\ pc = "L686" /\ search_type = MTixJson
    /\ \E d \in DataSource :
         Step(Tixlog_find_by_json_content(input_value, d.cur, d.ex, d.n),
              "primary_results", "L700", FALSE)

\* line 692
L692_find_by_origem ==
    /\ pc = "L686" /\ search_type = MTixOrigem
    /\ \E d \in DataSource :
         Step(Tixlog_find_by_origem(input_value, d.cur, d.ex, d.n),
              "primary_results", "L700", FALSE)

\* lines 700-702
L700_mclog_find_by_outras_info ==
    /\ pc = "L700"
    /\ \E d \in DataSource :
         Step(Mclog_find_by_outras_info(input_value, d.cur, d.ex, d.n),
              "complementary_results", "end", TRUE)

\* lines 705-707
L705_mclog_find_by_outras_info ==
    /\ pc = "L705"
    /\ \E d \in DataSource :
         Step(Mclog_find_by_outras_info(input_value, d.cur, d.ex, d.n),
              "mclog_results", "end", TRUE)

RECURSIVE SumRows(_)
SumRows(cs) == IF Len(cs) = 0 THEN 0 ELSE Head(cs).rows + SumRows(Tail(cs))

RECURSIVE MaxRows(_)
MaxRows(cs) == IF Len(cs) = 0 THEN 0 ELSE Max(Head(cs).rows, MaxRows(Tail(cs)))

\* pd.DataFrame(temp_complementary).drop_duplicates(): rows of one lookup are
\* distinct, rows of different lookups may coincide; the sizes that remain
\* when the lookups returned the same rows and when they returned disjoint rows
DropDuplicates(lookups) == {MaxRows(lookups), SumRows(lookups)}

\* lines 695-702: one find_by_outras_info per element of nr_list, in order;
\* after the last one the concatenation is deduplicated and the notice decided
L698_mclog_find_by_outras_info ==
    /\ pc = "L698"
    /\ LET nr_list == NrList(input_value)
           k == Len(calls)
       IN  \E d \in DataSource :
             LET e == Mclog_find_by_outras_info(nr_list[k], d.cur, d.ex, d.n)
                 lookups == SubSeq(calls, 2, Len(calls)) \o <<e>>
                 temp == SumRows(lookups)
             IN  /\ calls' = Append(calls, e)
                 /\ openCursors' = openCursors + (IF e.opened THEN 1 ELSE 0)
                                               - (IF e.closed THEN 1 ELSE 0)
                 /\ IF e.exc # "none" THEN
                        /\ raised' = e.exc
                        /\ pc' = "end"
                        /\ sv' = sv
                        /\ messages' = messages
                    ELSE IF k < Len(nr_list) THEN
                        /\ raised' = raised
                        /\ pc' = "L698"
                        /\ sv' = [sv EXCEPT !["temp_complementary"] = temp]
                        /\ messages' = messages
                             \cup (IF e.notice THEN {"query_error"} ELSE {})
                    ELSE
                        /\ raised' = raised
                        /\ pc' = "end"
                        /\ \E m \in (IF temp > 0 THEN DropDuplicates(lookups)
                                     ELSE {0}) :
                             LET s2 == [sv EXCEPT
                                          !["temp_complementary"] = temp,
                                          !["complementary_results"] = m]
                             IN  /\ sv' = s2
                                 /\ messages' = messages
                                      \cup (IF e.notice THEN {"query_error"}
                                            ELSE {})
                                      \cup (IF NoResults(search_type, s2)
                                            THEN {"no_results"} ELSE {})
    /\ UNCHANGED <<db_connection, session_repos, repos, search_type,
                   input_value, initCalls, probe, arg, ret>>

\* line 719
L719_get_new_entries_per_minute ==
    /\ pc = "L719"
    /\ \E d \in DataSource :
         Step(Tixlog_get_new_entries_per_minute(d.cur, d.ex, d.n),
              "stats_data", "end", FALSE)

\* line 753
L753_get_operations_per_minute ==
    /\ pc = "L753"
    /\ \E d \in DataSource,
          selected_hours \in HourOptions :
         Step(Mclog_get_operations_per_minute(selected_hours, d.cur, d.ex, d.n),
              "ops_data", "L776", FALSE)

\* line 776
L776_get_latest_errors ==
    /\ pc = "L776"
    /\ \E d \in DataSource :
         Step(Mclog_get_latest_errors(d.cur, d.ex, d.n), "error_data", "end", FALSE)

\* line 798
L798_get_performance_summary_data ==
    /\ pc = "L798"
    /\ \E d \in DataSource,
          selected_perf_mode \in PerfModes :
         Step(Tixlog_get_performance_summary_data(selected_perf_mode,
                                             d.cur, d.ex, d.n),
              "perf_data", "end", FALSE)

Next ==
    \/ CheckConnection
    \/ SelectSearch
    \/ SelectStats
    \/ L650_get_transaction_summary
    \/ L662_mix100_find_by_nr_controle
    \/ L664_tixlog_find_by_nr_controle
    \/ L666_mclog_find_by_outras_info
    \/ L671_find_by_endtoendiddevolucao
    \/ L677_find_by_kyt_id
    \/ L686_find_by_nr_controle
    \/ L687_find_by_idreqjdpi
    \/ L690_find_by_nr_controle_in
    \/ L690_empty_list
    \/ L691_find_by_json_content
    \/ L692_find_by_origem
    \/ L698_mclog_find_by_outras_info
    \/ L700_mclog_find_by_outras_info
    \/ L705_mclog_find_by_outras_info
    \/ L719_get_new_entries_per_minute
    \/ L753_get_operations_per_minute
    \/ L776_get_latest_errors
    \/ L798_get_performance_summary_data

Spec == Init /\ [][Next]_vars

(***************************************************************************)
(* Properties.                                                             *)
(***************************************************************************)
CallIndexes == 1..Len(calls)

\* the search methods, which start with the guard "if not <value>: return []"
SearchOps == {"tixlog.find_by_nr_controle", "tixlog.find_by_idreqjdpi",
              "tixlog.find_by_nr_controle_in", "tixlog.find_by_json_content",
              "tixlog.find_by_origem", "tixlog.get_transaction_summary",
              "mclog.find_by_outras_info", "mix100.find_by_nr_controle",
              "mix100.find_by_endtoendiddevolucao", "mclog_cct.find_by_kyt_id"}

\* empty or made of whitespace only
IsBlank(s) == \A i \in 1..Len(s) : IsSpace(s[i])

BlankArgument(c) ==
    IF c.op = "tixlog.find_by_nr_controle_in" THEN Len(c.args) = 0
    ELSE IsBlank(c.args[1])

\* check_connection itself raised: the run ended before any page code
CheckRaised == raised # "none" /\ calls = <<>>

\* C1: a search operation given an empty or whitespace-only value (or an
\* empty list) returns an empty result without opening a cursor and without
\* executing a query.
C1_BlankInputShortCircuits ==
    \A i \in CallIndexes :
        (calls[i].op \in SearchOps /\ BlankArgument(calls[i]))
            => (~calls[i].opened /\ ~calls[i].executed /\ calls[i].rows = 0)

\* C2: when the data source fails while the query of a repository call runs,
\* the call does not raise: it renders a notice and returns an empty result,
\* and the run goes on.
C2_FailureDegradesToEmpty ==
    \A i \in CallIndexes :
        calls[i].fault = "pyodbc"
            => (calls[i].exc = "none" /\ calls[i].notice /\ calls[i].rows = 0)

\* C3: every cursor acquired by a repository call or by the liveness probe is
\* closed when the call returns or raises, so no call starts with a cursor
\* left open by an earlier one.
C3_CursorsClosed ==
    /\ openCursors = 0
    /\ \A i \in CallIndexes : calls[i].opened => calls[i].closed

\* a call that raised after it had acquired its cursor
C3_Witness ==
    /\ Len(calls) > 0
    /\ calls[Len(calls)].opened
    /\ calls[Len(calls)].exc # "none"
    /\ raised = calls[Len(calls)].exc

\* C4: when the liveness probe fails with a data-source error, check_connection
\* does not raise; it returns repositories all bound to the stored (new)
\* handle, or no repositories together with a connectivity error.
C4_ProbeFailureHandled ==
    probe \in PyodbcErrors =>
        /\ ~CheckRaised
        /\ IF Truthy(repos)
           THEN \A r \in RepoNames : repos.bind[r] = db_connection
           ELSE "connect_error" \in messages

\* C5: at most one establishment attempt per cycle, and a liveness-probe
\* failure triggers exactly one call of init_connection.
C5_OneAttemptPerCycle ==
    /\ initCalls <= 1
    /\ probe \in PyodbcErrors => initCalls = 1

\* C6: from the Unconnected state check_connection attempts establishment
\* once and does not raise; either the session holds a handle and the four
\* repositories, all bound to it, or the error is reported and handle and
\* repositories are both cleared.
C6_EstablishFromUnconnected ==
    [][ (pc \in {"L486", "end"} /\ Unconnected(session_repos) /\ pc' # pc) =>
          /\ raised' = "none"
          /\ initCalls' = 1
          /\ repos' = session_repos'
          /\ \/ /\ Truthy(session_repos')
                /\ db_connection' \in Handles
                /\ DOMAIN session_repos'.bind = RepoNames
                /\ \A r \in RepoNames : session_repos'.bind[r] = db_connection'
                /\ "connect_error" \notin messages'
             \/ /\ session_repos' = ReposNone
                /\ db_connection' = NoConnection
                /\ "connect_error" \in messages' ]_vars

\* establishment from Unconnected succeeded
C6_Witness ==
    pc = "page" /\ probe = "none" /\ initCalls = 1 /\ Truthy(repos)

\* C7: in the Connected state a successful probe leaves the stored handle and
\* repositories unchanged, returns those repositories and does not call
\* init_connection.
C7_ProbeSuccessKeepsSession ==
    [][ (pc \in {"L486", "end"} /\ ~Unconnected(session_repos) /\ pc' # pc
         /\ probe' = "ok") =>
          /\ db_connection' = db_connection
          /\ session_repos' = session_repos
          /\ repos' = session_repos
          /\ initCalls' = 0
          /\ raised' = "none" ]_vars

\* a cycle whose probe succeeded
C7_Witness ==
    pc = "page" /\ probe = "ok" /\ Truthy(repos) /\ initCalls = 0

\* C8: in a cycle in which check_connection yields no repositories
\* (establishment or reconnection failed) no repository operation is invoked.
C8_NoCallsWithoutRepos ==
    (~Truthy(repos) \/ "connect_error" \in messages) => calls = <<>>

\* a statistics button pressed in a cycle whose reconnection failed
C8_Witness ==
    /\ pc = "end"
    /\ "connect_error" \in messages
    /\ "not_connected" \in messages
    /\ search_type \in StatButtons

(***************************************************************************)
(* Row caps.                                                               *)
(***************************************************************************)
\* the methods whose query has a TOP clause, with its limit
TopOf(op) ==
    IF op \in {"mix100.find_by_nr_controle",
               "mix100.find_by_endtoendiddevolucao"} THEN TopMix100
    ELSE IF op = "mclog_cct.find_by_kyt_id" THEN TopMclogCct
    ELSE IF op = "mclog.find_by_outras_info" THEN TopMclog
    ELSE IF op = "mclog.get_latest_errors" THEN TopLatestErrors
    ELSE TopTixlog

TopOps == (SearchOps \ {"tixlog.get_transaction_summary"})
              \cup {"mclog.get_latest_errors"}

\* the largest row cap the specification names for any operation
LargestCap == Max(Max(TopTixlog, TopMix100), TopMclogCct)

C10_NoticeOnlyIfAllEmpty ==
    "no_results" \in messages => \A i \in CallIndexes : calls[i].rows = 0

\* C10 amended: the notice is shown only if every primary and complementary
\* lookup invoked in the cycle returned empty; the summary is not consulted.
C10_NoticeOnlyIfLookupsEmpty ==
    "no_results" \in messages =>
        \A i \in CallIndexes :
            calls[i].op # "tixlog.get_transaction_summary" => calls[i].rows = 0

\* the notice in a 360 cycle: summary and three lookups, all lookups executed
C10_Witness ==
    /\ "no_results" \in messages
    /\ search_type = M360
    /\ Len(calls) = 4
    /\ \A i \in CallIndexes : calls[i].executed

(***************************************************************************)
(* Direction of a transaction: OperationType_CTE of                        *)
(* get_transaction_summary and of get_performance_summary_data, evaluated  *)
(* on the TIXLOG rows of one NR_CONTROLE.                                  *)
(***************************************************************************)
\* rows of one NR_CONTROLE that the query reads
MaxGroup == 2

Users == {"envia_pix_prod", "recebe_pix_prod", "outro"}

\* the words the CASE looks for in DESCRICAO (DÉBITO, CRÉDITO)
Keywords == {"DEBITO", "CREDITO"}

\* DESCRICAO LIKE '%keyword%', a DESCRICAO value being told by the keywords
\* that occur in it
Like(descricao, keyword) == keyword \in descricao

TixlogRows == [USUARIO : Users, DESCRICAO : SUBSET Keywords]

TipoCase_InFirst(row) ==
    IF row.USUARIO = "recebe_pix_prod" \/ Like(row.DESCRICAO, "CREDITO")
    THEN "IN"
    ELSE IF row.USUARIO = "envia_pix_prod" \/ Like(row.DESCRICAO, "DEBITO")
    THEN "OUT"
    ELSE "Indefinido"

\* CASE WHEN USUARIO = 'envia_pix_prod' OR DESCRICAO LIKE '%DÉBITO%' THEN 'OUT'
\*      WHEN USUARIO = 'recebe_pix_prod' OR DESCRICAO LIKE '%CRÉDITO%' THEN 'IN'
\*      ELSE 'Indefinido' END
TipoCase(row) ==
    IF row.USUARIO = "envia_pix_prod" \/ Like(row.DESCRICAO, "DEBITO")
    THEN "OUT"
    ELSE IF row.USUARIO = "recebe_pix_prod" \/ Like(row.DESCRICAO, "CREDITO")
    THEN "IN"
    ELSE "Indefinido"

\* the three string literals of the CASE, character by character
Letters(label) ==
    CASE label = "OUT" -> <<"O", "U", "T">>
      [] label = "IN" -> <<"I", "N">>
      [] label = "Indefinido" ->
           <<"I", "n", "d", "e", "f", "i", "n", "i", "d", "o">>

CodePoint(c) ==
    CASE c = "I" -> 73 [] c = "N" -> 78 [] c = "O" -> 79 [] c = "T" -> 84
      [] c = "U" -> 85 [] c = "d" -> 100 [] c = "e" -> 101 [] c = "f" -> 102
      [] c = "i" -> 105 [] c = "n" -> 110 [] c = "o" -> 111

\* the collation of the database is not set by the program: a binary one
\* compares code points, a case-insensitive one compares folded letters
Collations == {"BIN", "CI"}

Weight(c, collation) ==
    IF collation = "CI" /\ CodePoint(c) >= 97 THEN CodePoint(c) - 32
    ELSE CodePoint(c)

RECURSIVE SeqLess(_, _, _)
SeqLess(a, b, collation) ==
    IF Len(b) = 0 THEN FALSE
    ELSE IF Len(a) = 0 THEN TRUE
    ELSE IF Weight(Head(a), collation) # Weight(Head(b), collation)
         THEN Weight(Head(a), collation) < Weight(Head(b), collation)
         ELSE SeqLess(Tail(a), Tail(b), collation)

StrLess_ByLength(x, y, collation) == Len(Letters(x)) < Len(Letters(y))

\* comparison of two varchar values
StrLess(x, y, collation) == SeqLess(Letters(x), Letters(y), collation)

RECURSIVE SqlMax(_, _)
\* MAX(...) over the rows of a group, the group being non-empty
SqlMax(labels, collation) ==
    IF Len(labels) = 1 THEN Head(labels)
    ELSE LET m == SqlMax(Tail(labels), collation)
         IN  IF StrLess(m, Head(labels), collation) THEN Head(labels) ELSE m

\* SELECT NR_CONTROLE, MAX(CASE ...) AS Tipo_Operacao ... GROUP BY NR_CONTROLE:
\* one row for the group when it has rows, no row otherwise
OperationType_CTE(rows, collation) ==
    IF Len(rows) = 0 THEN <<>>
    ELSE <<[Tipo_Operacao |->
              SqlMax([i \in 1..Len(rows) |-> TipoCase(rows[i])], collation)]>>

\* TransactionAggregation_CTE agg LEFT JOIN OperationType_CTE ot, with
\* ISNULL(ot.Tipo_Operacao, 'Indefinido'): both sides group the same rows
SummarySelect(rows, collation) ==
    LET ot == OperationType_CTE(rows, collation)
    IN  IF Len(rows) = 0 THEN <<>>
        ELSE IF Len(ot) = 0 THEN <<"Indefinido">>
        ELSE <<ot[1].Tipo_Operacao>>

\* Tipo_Operacao of the summary row of get_transaction_summary
TransactionSummaryTipo(rows, collation) == SummarySelect(rows, collation)

\* Tipo_Operacao of the row of this NR_CONTROLE in get_performance_summary_data
PerformanceSummaryTipo(rows, collation) == SummarySelect(rows, collation)

InitDirection ==
    /\ ScriptAtStart
    /\ arg \in [rows : UNION {[1..k -> TixlogRows] : k \in 0..MaxGroup},
                 collation : Collations]
    /\ ret = {}

Direction_get_transaction_summary ==
    /\ \A r \in ret : r.op # "get_transaction_summary"
    /\ ret' = ret \cup {[op |-> "get_transaction_summary",
                         Tipo_Operacao |->
                           TransactionSummaryTipo(arg.rows, arg.collation)]}
    /\ UNCHANGED <<scriptVars, arg>>

Direction_get_performance_summary_data ==
    /\ \A r \in ret : r.op # "get_performance_summary_data"
    /\ ret' = ret \cup {[op |-> "get_performance_summary_data",
                         Tipo_Operacao |->
                           PerformanceSummaryTipo(arg.rows, arg.collation)]}
    /\ UNCHANGED <<scriptVars, arg>>

NextDirection ==
    \/ Direction_get_transaction_summary
    \/ Direction_get_performance_summary_data

SpecDirection == InitDirection /\ [][NextDirection]_vars

GroupIndexes == 1..Len(arg.rows)
GroupLabels == {TipoCase(arg.rows[i]) : i \in GroupIndexes}

\* C11: when every row of the correlation id has actor 'envia_pix_prod' the
\* direction is 'OUT'; when every row has actor 'recebe_pix_prod' and no
\* description holds the outbound keyword it is 'IN'; when no row matches an
\* outbound or inbound actor or keyword it is 'Indefinido'
C11_DirectionInference ==
    \A r \in ret :
      Len(arg.rows) > 0 =>
        /\ (\A i \in GroupIndexes : arg.rows[i].USUARIO = "envia_pix_prod")
              => r.Tipo_Operacao = <<"OUT">>
        /\ (\A i \in GroupIndexes :
               /\ arg.rows[i].USUARIO = "recebe_pix_prod"
               /\ ~Like(arg.rows[i].DESCRICAO, "DEBITO"))
              => r.Tipo_Operacao = <<"IN">>
        /\ (\A i \in GroupIndexes :
               /\ arg.rows[i].USUARIO = "outro"
               /\ arg.rows[i].DESCRICAO = {})
              => r.Tipo_Operacao = <<"Indefinido">>

C11_Witness ==
    /\ Cardinality(ret) = 2
    /\ Len(arg.rows) >= 2
    /\ \A i \in GroupIndexes :
         /\ arg.rows[i].USUARIO = "recebe_pix_prod"
         /\ ~Like(arg.rows[i].DESCRICAO, "DEBITO")
    /\ \E i \in GroupIndexes : Like(arg.rows[i].DESCRICAO, "CREDITO")
    /\ \A r \in ret : r.Tipo_Operacao = <<"IN">>

\* the fixed total order 'IN' < 'Indefinido' < 'OUT'
LabelRank(label) ==
    CASE label = "IN" -> 1 [] label = "Indefinido" -> 2 [] label = "OUT" -> 3

GreatestLabel(labels) ==
    CHOOSE l \in labels : \A m \in labels : LabelRank(m) <= LabelRank(l)

Reordered(rows, p) == [i \in 1..Len(rows) |-> rows[p[i]]]

C13_UndefinedOnlyWithoutDirection ==
    \A r \in ret :
      r.Tipo_Operacao = <<"Indefinido">> => GroupLabels = {"Indefinido"}

(***************************************************************************)
(* _format_results: the rows of a cursor as a list of dicts.               *)
(***************************************************************************)
\* columns of a result set, rows that fetchall() returns
MaxColumns == 2
MaxFetched == 2

\* cursor.description: one entry per column of the SELECT list; nothing in
\* the formatter or in pyodbc makes the names differ from one another.
\* cursor.fetchall(): every row has one value per column
Cursors ==
    UNION {{[description |-> c, fetchall |-> r] :
              r \in UNION {[1..m -> [1..Len(c) -> {1, 2}]] :
                             m \in 0..MaxFetched}} :
             c \in UNION {[1..n -> {"ID", "NR_CONTROLE", "DATAHORA"}] :
                            n \in 1..MaxColumns}}

\* zip(columns, row): pairs up to the shorter of the two
Zip(a, b) == [i \in 1..Min(Len(a), Len(b)) |-> <<a[i], b[i]>>]

\* a dict is its items in insertion order; d[key] = value on a key that is
\* present keeps the place of the key and replaces its value
DictSet(d, key, value) ==
    IF \E i \in 1..Len(d) : d[i][1] = key
    THEN [i \in 1..Len(d) |-> IF d[i][1] = key THEN <<key, value>> ELSE d[i]]
    ELSE Append(d, <<key, value>>)

RECURSIVE Dict(_)
\* dict(pairs): the pairs are inserted from first to last
Dict(pairs) ==
    IF Len(pairs) = 0 THEN <<>>
    ELSE LET p == pairs[Len(pairs)]
         IN  DictSet(Dict(SubSeq(pairs, 1, Len(pairs) - 1)), p[1], p[2])

format_results_Reversed(cursor) ==
    LET columns == cursor.description
        m == Len(cursor.fetchall)
    IN  [i \in 1..m |-> Dict(Zip(columns, cursor.fetchall[m + 1 - i]))]

\* columns = [column[0] for column in cursor.description]
\* return [dict(zip(columns, row)) for row in cursor.fetchall()]
format_results(cursor) ==
    LET columns == cursor.description
    IN  [i \in 1..Len(cursor.fetchall) |->
           Dict(Zip(columns, cursor.fetchall[i]))]

InitFormat ==
    /\ ScriptAtStart
    /\ arg \in Cursors
    /\ ret = <<>>

Format_format_results ==
    /\ Len(ret) = 0
    /\ ret' = <<format_results(arg)>>
    /\ UNCHANGED <<scriptVars, arg>>

SpecFormat == InitFormat /\ [][Format_format_results]_vars

DictKeys(d) == {d[k][1] : k \in 1..Len(d)}
DictGet(d, key) == d[CHOOSE k \in 1..Len(d) : d[k][1] = key][2]

\* the i-th mapping has the keys c1..cn, one item per column, and maps cj
\* to the j-th value of the i-th row
MapsEveryColumn(out, columns, rows) ==
    /\ Len(out) = Len(rows)
    /\ \A i \in 1..Len(rows) :
         /\ Len(out[i]) = Len(columns)
         /\ DictKeys(out[i]) = {columns[j] : j \in 1..Len(columns)}
         /\ \A j \in 1..Len(columns) :
              DictGet(out[i], columns[j]) = rows[i][j]

DistinctNames(columns) ==
    \A j, k \in 1..Len(columns) : columns[j] = columns[k] => j = k

MaxLookups == 3
MaxFound == 1

\* what the find_by_outras_info calls return, one list of rows per element
LookupLists ==
    UNION {[1..k -> UNION {[1..m -> [ID : {1, 2}, OUTRAS_INFO : {"x", "y"}]] :
                             m \in 0..MaxFound}] :
             k \in 1..MaxLookups}

RECURSIVE Flatten(_)
\* [item for sublist in [...] for item in sublist]
Flatten(sublists) ==
    IF Len(sublists) = 0 THEN <<>>
    ELSE Head(sublists) \o Flatten(Tail(sublists))

RECURSIVE drop_duplicates(_)
\* DataFrame.drop_duplicates(): keep='first' over all columns, order kept
drop_duplicates(records) ==
    IF Len(records) = 0 THEN <<>>
    ELSE LET kept == drop_duplicates(SubSeq(records, 1, Len(records) - 1))
             last == records[Len(records)]
         IN  IF \E i \in 1..Len(kept) : kept[i] = last THEN kept
             ELSE Append(kept, last)

MergeComplementary_Concatenated(lookups) == Flatten(lookups)

\* complementary_results after lines 698-699; it stays [] when
\* temp_complementary is empty
MergeComplementary(lookups) ==
    LET temp_complementary == Flatten(lookups)
    IN  IF Len(temp_complementary) > 0
        THEN drop_duplicates(temp_complementary)
        ELSE <<>>

InitMerge ==
    /\ ScriptAtStart
    /\ arg \in LookupLists
    /\ ret = <<>>

Merge_complementary_results ==
    /\ Len(ret) = 0
    /\ ret' = <<MergeComplementary(arg)>>
    /\ UNCHANGED <<scriptVars, arg>>

SpecMerge == InitMerge /\ [][Merge_complementary_results]_vars

\* the rows that some lookup returned
ReturnedRows ==
    UNION {{arg[l][i] : i \in 1..Len(arg[l])} : l \in 1..Len(arg)}

RECURSIVE LengthBefore(_)
LengthBefore(l) == IF l = 1 THEN 0 ELSE LengthBefore(l - 1) + Len(arg[l - 1])

\* place of the first occurrence of a row in the concatenation
FirstPlace(row) ==
    LET places == {LengthBefore(l) + i :
                     <<l, i>> \in {q \in (1..Len(arg)) \X (1..MaxFound) :
                                     /\ q[2] <= Len(arg[q[1]])
                                     /\ arg[q[1]][q[2]] = row}}
    IN  CHOOSE p \in places : \A q \in places : p <= q

\* C15: the merged complementary result holds every row that some lookup
\* returned exactly once, in the order of first occurrence in the
\* concatenation of the lookups
C15_MergedHoldsEachRowOnce ==
    Len(ret) = 1 =>
      LET merged == ret[1]
      IN  /\ {merged[i] : i \in 1..Len(merged)} = ReturnedRows
          /\ \A i, j \in 1..Len(merged) : merged[i] = merged[j] => i = j
          /\ \A i, j \in 1..Len(merged) :
               i < j => FirstPlace(merged[i]) < FirstPlace(merged[j])

C15_Witness ==
    /\ Len(ret) = 1
    /\ Len(arg) = 3
    /\ \A l \in 1..3 : Len(arg[l]) = 1
    /\ arg[2][1].ID = arg[1][1].ID /\ arg[2][1] # arg[1][1]
    /\ arg[3][1] = arg[1][1]
    /\ ret[1] = <<arg[1][1], arg[2][1]>>

(***************************************************************************)
(* find_by_nr_controle_in: NR_CONTROLE IN (?, ?, ...) over the stored      *)
(* rows of TIXLOG.                                                         *)
(***************************************************************************)
\* elements of nr_controles, rows stored in TIXLOG
MaxList == 3
MaxStored == 2

\* values of NR_CONTROLE that the user lists
ListedNr == {"A", "B"}

NrLists == UNION {[1..k -> ListedNr] : k \in 0..MaxList}

\* TIXLOG: ID is the key of the table
TixlogTables ==
    {t \in SUBSET [ID : 1..MaxStored, NR_CONTROLE : ListedNr \cup {"C"}] :
        \A r1, r2 \in t : r1.ID = r2.ID => r1 = r2}

\* ['?' for _ in nr_controles]
Placeholders(nr_controles) == [i \in 1..Len(nr_controles) |-> "?"]

BoundValue_First(params, k) == params[1]

\* cursor.execute(sql_query, params): the k-th "?" takes the k-th parameter
BoundValue(params, k) == params[k]

\* NR_CONTROLE IN (?, ?, ...)
SqlIn(value, placeholders, params) ==
    \E k \in 1..Len(placeholders) : value = BoundValue(params, k)

RECURSIVE OrderByIdDesc(_)
\* ORDER BY ID DESC
OrderByIdDesc(rows) ==
    IF rows = {} THEN <<>>
    ELSE LET top == CHOOSE r \in rows : \A q \in rows : q.ID <= r.ID
         IN  <<top>> \o OrderByIdDesc(rows \ {top})

\* SELECT TOP (1000) * ... WHERE NR_CONTROLE IN (...) ORDER BY ID DESC
SelectIn(table, placeholders, params) ==
    LET found == OrderByIdDesc({r \in table :
                                  SqlIn(r.NR_CONTROLE, placeholders, params)})
    IN  SubSeq(found, 1, SelectTop(TopTixlog, Len(found)))

find_by_nr_controle_in(nr_controles, table) ==
    IF Len(nr_controles) = 0
    THEN [executed |-> FALSE, placeholders |-> <<>>, params |-> <<>>,
          rows |-> <<>>]
    ELSE LET placeholders == Placeholders(nr_controles)
             params == nr_controles
         IN  [executed |-> TRUE, placeholders |-> placeholders,
              params |-> params,
              rows |-> SelectIn(table, placeholders, params)]

InitInList ==
    /\ ScriptAtStart
    /\ arg \in [nr_controles : NrLists, table : TixlogTables]
    /\ ret = <<>>

InList_find_by_nr_controle_in ==
    /\ Len(ret) = 0
    /\ ret' = <<find_by_nr_controle_in(arg.nr_controles, arg.table)>>
    /\ UNCHANGED <<scriptVars, arg>>

SpecInList == InitInList /\ [][InList_find_by_nr_controle_in]_vars

Elements(list) == {list[i] : i \in 1..Len(list)}
HasDuplicates(list) == \E i, j \in 1..Len(list) : i # j /\ list[i] = list[j]

Order360 == <<"tixlog.get_transaction_summary", "mix100.find_by_nr_controle",
              "tixlog.find_by_nr_controle", "mclog.find_by_outras_info">>

\* the run reached the end of the script after it had started its lookups
CycleOver == pc = "end" /\ Len(calls) > 0

\* the only failures of the cycle, if any, are pyodbc errors raised while a
\* query ran
OnlyQueryFailures ==
    \A i \in CallIndexes : calls[i].fault \in {"none", "pyodbc"}

\* C17: a cycle of the 360 mode calls the transaction summary, then the
\* MIX100 lookup, then the TIXLOG lookup, then the MCLOG lookup, one after
\* the other and each exactly once
C17_FullLookupOrder ==
    search_type = M360 =>
      /\ \A i \in CallIndexes :
           i <= Len(Order360) /\ calls[i].op = Order360[i]
      /\ (CycleOver /\ OnlyQueryFailures) => Len(calls) = Len(Order360)

\* C19: a cycle of the list mode passes the trimmed non-blank lines of the
\* input, in order: one find_by_nr_controle_in with the whole list, then one
\* find_by_outras_info per element in list order; when no line is left, no
\* repository is called
C19_ListLookups ==
    search_type = MTixList =>
      LET nr_list == NrList(input_value)
      IN  /\ Len(nr_list) = 0 => Len(calls) = 0
          /\ \A i \in CallIndexes :
               IF i = 1
               THEN /\ calls[i].op = "tixlog.find_by_nr_controle_in"
                    /\ calls[i].args = nr_list
               ELSE /\ i - 1 <= Len(nr_list)
                    /\ calls[i].op = "mclog.find_by_outras_info"
                    /\ calls[i].args = <<nr_list[i - 1]>>
          /\ (CycleOver /\ OnlyQueryFailures)
                => Len(calls) = 1 + Len(nr_list)

(***************************************************************************)
(* display_json_or_text.                                                   *)
(***************************************************************************)
\* characters of a content value; nesting that the JSON scanner follows
\* before the interpreter stops the recursion (sys.getrecursionlimit(),
\* scaled to the lengths of the model)
MaxContent == 3
MaxNesting == 2

\* a value of a JSON / JSON_RETORNO / OUTRAS_INFO field: a str, or a value
\* of another type that is falsy (None, 0) or truthy (7, nan)
Contents ==
    {[type |-> "str", text |-> s, nonzero |-> Len(s) > 0] :
        s \in StringsOver({"{", "}", "[", "]", "1", "x"}, MaxContent)}
    \cup
    ({[type |-> t, text |-> <<>>, nonzero |-> b] :
        t \in {"NoneType", "int", "float"}, b \in BOOLEAN}
       \ {[type |-> "NoneType", text |-> <<>>, nonzero |-> TRUE]})

\* not content or not isinstance(content, str)
EmptyOrNotText(content) == ~content.nonzero \/ content.type # "str"

\* content[content.find('{'):] when '{' in content, else content
JsonPart(text) ==
    IF \E i \in 1..Len(text) : text[i] = "{"
    THEN LET json_start_index ==
                 CHOOSE i \in 1..Len(text) :
                    text[i] = "{" /\ \A k \in 1..(i - 1) : text[k] # "{"
         IN  SubSeq(text, json_start_index, Len(text))
    ELSE text

RECURSIVE Digits(_, _)
\* end of the run of digits that starts at idx
Digits(s, idx) ==
    IF idx <= Len(s) /\ s[idx] = "1" THEN Digits(s, idx + 1) ELSE idx

RECURSIVE scan_once(_, _, _)
\* json.scanner: the value that starts at s[idx], inside depth arrays;
\* end is the index after the value
scan_once(s, idx, depth) ==
    IF idx > Len(s) THEN [status |-> "JSONDecodeError", end |-> 0]
    ELSE IF s[idx] = "1" THEN [status |-> "ok", end |-> Digits(s, idx)]
    ELSE IF s[idx] = "{" THEN
        \* an object: "}" or a quoted key must follow
        IF idx + 1 <= Len(s) /\ s[idx + 1] = "}"
        THEN [status |-> "ok", end |-> idx + 2]
        ELSE [status |-> "JSONDecodeError", end |-> 0]
    ELSE IF s[idx] = "[" THEN
        IF depth + 1 > MaxNesting
        THEN [status |-> "RecursionError", end |-> 0]
        ELSE IF idx + 1 <= Len(s) /\ s[idx + 1] = "]"
        THEN [status |-> "ok", end |-> idx + 2]
        ELSE LET item == scan_once(s, idx + 1, depth + 1)
             IN  IF item.status # "ok" THEN item
                 ELSE IF item.end <= Len(s) /\ s[item.end] = "]"
                 THEN [status |-> "ok", end |-> item.end + 1]
                 ELSE [status |-> "JSONDecodeError", end |-> 0]
    ELSE [status |-> "JSONDecodeError", end |-> 0]

\* json.loads(s): one value and nothing after it
json_loads(s) ==
    LET obj == scan_once(s, 1, 0)
    IN  IF obj.status # "ok" THEN [status |-> obj.status, value |-> <<>>]
        ELSE IF obj.end <= Len(s)
        THEN [status |-> "JSONDecodeError", value |-> <<>>]
        ELSE [status |-> "ok", value |-> s]

display_json_or_text(content) ==
    IF EmptyOrNotText(content)
    THEN [raised |-> "none", widget |-> "st.info", body |-> <<>>]
    ELSE LET parsed_json == json_loads(JsonPart(content.text))
         IN  IF parsed_json.status = "ok"
             THEN [raised |-> "none", widget |-> "st.json",
                   body |-> parsed_json.value]
             ELSE IF parsed_json.status = "JSONDecodeError"
             THEN [raised |-> "none", widget |-> "st.code",
                   body |-> content.text]
             ELSE [raised |-> parsed_json.status, widget |-> "none",
                   body |-> <<>>]

InitRender ==
    /\ ScriptAtStart
    /\ arg \in Contents
    /\ ret = <<>>

Render_display_json_or_text ==
    /\ Len(ret) = 0
    /\ ret' = <<display_json_or_text(arg)>>
    /\ UNCHANGED <<scriptVars, arg>>

SpecRender == InitRender /\ [][Render_display_json_or_text]_vars

\* C18: display_json_or_text never raises: empty or non-text content gives
\* the 'empty' indicator; other content is parsed from its first '{' (whole
\* when it has none) and rendered as JSON when the parse succeeds, else the
\* complete content is rendered as plain text
C18_RendererNeverRaises ==
    Len(ret) = 1 =>
      /\ ret[1].raised = "none"
      /\ EmptyOrNotText(arg) => ret[1].widget = "st.info"
      /\ ~EmptyOrNotText(arg) =>
           \/ ret[1].widget = "st.json" /\ ret[1].body = JsonPart(arg.text)
           \/ ret[1].widget = "st.code" /\ ret[1].body = arg.text

(***************************************************************************)
(* get_new_entries_per_minute over the stored rows of TIXLOG.  DATAHORA    *)
(* and GETDATE() are seconds on one clock.                                 *)
(***************************************************************************)
\* DATEADD(day, -1, GETDATE())
WindowStart(now) == now - 24 * 60 * 60

\* TIXLOG as the query scans it; several rows may share NR_CONTROLE and
\* DATAHORA.  The timestamps lie just before the window, at its start, and
\* within the two minutes that follow
LoggedTables(now) ==
    UNION {[1..k -> [NR_CONTROLE : ListedNr,
                     DATAHORA : {WindowStart(now) + d : d \in {-1, 0, 59, 60}}]] :
             k \in 0..MaxStored}

\* FORMAT(DATAHORA, 'yyyy-MM-dd HH:mm'): the timestamp cut to its minute;
\* strings of this format are ordered as the minutes they name
MinutoFormatado(datahora) == datahora \div 60

\* WHERE DATAHORA >= DATEADD(day, -1, GETDATE())
InWindow(row, now) == row.DATAHORA >= WindowStart(now)

\* ROW_NUMBER() OVER (PARTITION BY NR_CONTROLE ORDER BY DATAHORA ASC) of the
\* row at place i among the rows at the places scanned; rows with equal
\* DATAHORA are numbered in scan order (any order of them leaves the same
\* minute at number 1)
RowNumber(table, scanned, i) ==
    1 + Cardinality({j \in scanned :
          /\ table[j].NR_CONTROLE = table[i].NR_CONTROLE
          /\ \/ table[j].DATAHORA < table[i].DATAHORA
             \/ (table[j].DATAHORA = table[i].DATAHORA /\ j < i)})

PrimeirasOcorrencias_NumberedFirst(table, now) ==
    LET scanned == 1..Len(table)
    IN  {[place |-> i, DATAHORA |-> table[i].DATAHORA,
          NR_CONTROLE |-> table[i].NR_CONTROLE,
          OrdemAparicao |-> RowNumber(table, scanned, i)] :
            i \in {k \in scanned : InWindow(table[k], now)}}

\* the CTE: the rows of the window, numbered within their NR_CONTROLE
PrimeirasOcorrencias(table, now) ==
    LET scanned == {i \in 1..Len(table) : InWindow(table[i], now)}
    IN  {[place |-> i, DATAHORA |-> table[i].DATAHORA,
          NR_CONTROLE |-> table[i].NR_CONTROLE,
          OrdemAparicao |-> RowNumber(table, scanned, i)] : i \in scanned}

RECURSIVE OrderByMinuto(_)
\* ORDER BY MinutoFormatado ASC
OrderByMinuto(groups) ==
    IF groups = {} THEN <<>>
    ELSE LET first == CHOOSE g \in groups :
                        \A h \in groups :
                           g.MinutoFormatado <= h.MinutoFormatado
         IN  <<first>> \o OrderByMinuto(groups \ {first})

\* SELECT FORMAT(...) AS MinutoFormatado, COUNT(*) ... WHERE OrdemAparicao = 1
\* GROUP BY FORMAT(...) ORDER BY MinutoFormatado ASC
get_new_entries_per_minute(table, now) ==
    LET firsts == {r \in PrimeirasOcorrencias(table, now) : r.OrdemAparicao = 1}
        minutes == {MinutoFormatado(r.DATAHORA) : r \in firsts}
    IN  OrderByMinuto(
          {[MinutoFormatado |-> m,
            NovosNrControlePorMinuto |->
              Cardinality({r \in firsts : MinutoFormatado(r.DATAHORA) = m})] :
             m \in minutes})

InitEntries ==
    /\ ScriptAtStart
    \* GETDATE() when the query runs: on a minute boundary, or inside a minute
    /\ \E now \in {2 * 24 * 60 * 60, 2 * 24 * 60 * 60 + 30} :
         arg \in [now : {now}, table : LoggedTables(now)]
    /\ ret = <<>>

Entries_get_new_entries_per_minute ==
    /\ Len(ret) = 0
    /\ ret' = <<get_new_entries_per_minute(arg.table, arg.now)>>
    /\ UNCHANGED <<scriptVars, arg>>

SpecEntries == InitEntries /\ [][Entries_get_new_entries_per_minute]_vars

\* places of the rows of a correlation id inside the window
PlacesInWindow(id) ==
    {i \in 1..Len(arg.table) :
        arg.table[i].NR_CONTROLE = id /\ InWindow(arg.table[i], arg.now)}

IdsInWindow == {id \in ListedNr : PlacesInWindow(id) # {}}

\* minute of the earliest row of a correlation id inside the window
FirstMinute(id) ==
    LET i == CHOOSE p \in PlacesInWindow(id) :
               \A q \in PlacesInWindow(id) :
                  arg.table[p].DATAHORA <= arg.table[q].DATAHORA
    IN  MinutoFormatado(arg.table[i].DATAHORA)

RECURSIVE SumCounts(_)
SumCounts(buckets) ==
    IF Len(buckets) = 0 THEN 0
    ELSE Head(buckets).NovosNrControlePorMinuto + SumCounts(Tail(buckets))

\* C20: every correlation id with a row in the window is counted once, in
\* the minute of its earliest row in the window; the counts add up to the
\* number of such ids and the minutes are ascending
C20_FirstEntriesPerMinute ==
    Len(ret) = 1 =>
      LET buckets == ret[1]
      IN  /\ \A k \in 1..Len(buckets) :
               /\ buckets[k].NovosNrControlePorMinuto
                    = Cardinality({id \in IdsInWindow :
                         FirstMinute(id) = buckets[k].MinutoFormatado})
               /\ buckets[k].NovosNrControlePorMinuto > 0
          /\ \A id \in IdsInWindow :
               \E k \in 1..Len(buckets) :
                  buckets[k].MinutoFormatado = FirstMinute(id)
          /\ SumCounts(buckets) = Cardinality(IdsInWindow)
          /\ \A j, k \in 1..Len(buckets) :
               j < k => buckets[j].MinutoFormatado < buckets[k].MinutoFormatado

C20_Witness ==
    /\ Len(ret) = 1
    /\ Len(arg.table) = 2
    /\ arg.table[1].NR_CONTROLE = arg.table[2].NR_CONTROLE
    /\ ~InWindow(arg.table[1], arg.now)
    /\ InWindow(arg.table[2], arg.now)
    /\ Len(ret[1]) = 1
    /\ ret[1][1].NovosNrControlePorMinuto = 1
    /\ ret[1][1].MinutoFormatado = MinutoFormatado(arg.table[2].DATAHORA)

(***************************************************************************)
(* The session state across request cycles.                                *)
(***************************************************************************)
\* C21: whatever establishments and probes succeeded or failed so far, the
\* session either holds no connection and no repositories, or holds a
\* connection and the four repositories, each bound to that connection
C21_SessionConsistent ==
    \/ /\ db_connection = NoConnection
       /\ Unconnected(session_repos)
    \/ /\ db_connection \in Handles
       /\ Truthy(session_repos)
       /\ DOMAIN session_repos.bind = RepoNames
       /\ \A r \in RepoNames : session_repos.bind[r] = db_connection

\* a lost connection was replaced: the probe failed, init_connection ran and
\* the session holds the new handle with its repositories
C21_Witness ==
    /\ pc = "page"
    /\ ProbeCaught(probe)
    /\ initCalls = 1
    /\ db_connection \in Handles
    /\ Truthy(session_repos)
    /\ \A r \in RepoNames : session_repos.bind[r] = db_connection

\* a request cycle that starts Unconnected and whose pyodbc.connect succeeds
EstablishFromUnconnected ==
    /\ Unconnected(session_repos)
    /\ CheckConnection
    /\ Truthy(repos')

\* the user keeps making requests, so the script keeps being rerun, and
\* pyodbc.connect does not fail for ever: of the attempts made from the
\* Unconnected state, one eventually succeeds
\* the request cycles of a session that stays on the statistics page
NextRecovery ==
    \/ CheckConnection
    \/ SelectStats
    \/ L719_get_new_entries_per_minute
    \/ L753_get_operations_per_minute
    \/ L776_get_latest_errors
    \/ L798_get_performance_summary_data

SpecRecovery ==
    /\ Init
    /\ [][NextRecovery]_vars
    /\ WF_vars(NextRecovery)
    /\ SF_vars(EstablishFromUnconnected)

\* C22: a failed connection attempt leaves the session cleared, the next
\* request cycle attempts establishment again, and when attempts do not
\* fail for ever a later check_connection returns the repositories
C22_FailureLeadsToRecovery ==
    /\ [][ (session_repos = ReposNone /\ pc \in {"L486", "end"} /\ pc' # pc)
             => initCalls' = 1 ]_vars
    /\ (session_repos = ReposNone /\ db_connection = NoConnection)
          ~> (Truthy(repos) /\ repos = session_repos)

\* a reconnection after a lost connection failed: the session is cleared
C22_Witness ==
    /\ pc = "page"
    /\ ProbeCaught(probe)
    /\ initCalls = 1
    /\ "connect_error" \in messages
    /\ session_repos = ReposNone
    /\ db_connection = NoConnection

====
